---- MODULE Spec2Model ----
(***************************************************************************)
(* Model of src/src/dxf.py, export_layers_to_dxf: layer selection, extent  *)
(* aggregation, configuration of the DXF exporter, the write step and the  *)
(* header patch of the written file (AC1015 -> AC1021, $INSUNITS = 6).     *)
(*                                                                         *)
(* A document is a sequence of lexemes; its text is their concatenation.   *)
(* The lexemes are the substrings the code searches for, the two           *)
(* whitespace characters the regular expression's \s meets ("NL" is "\n",  *)
(* "SP" is " ") and the digit runs "70", "0", "6".  No concatenation of    *)
(* these lexemes creates an occurrence of a searched substring across a    *)
(* lexeme boundary, so substring search on the text is lexeme search on    *)
(* the sequence; offsets are kept in characters (TokLen).                  *)
(***************************************************************************)
EXTENDS Integers, Sequences, FiniteSets, TLC

VARIABLES
    pc,               \* position in export_layers_to_dxf
    project,          \* QgsProject: the layers of the host project, in tree order
    selected_layers,  \* argument selected_layers (<<>> is None / empty list)
    layers_to_export, \* local layers_to_export
    extent,           \* local extent (QgsRectangle)
    calls,            \* the exporter's constructor and methods invoked so far
    warnings,         \* configuration steps that printed a warning
    result,           \* what the call returned: "None", "True", "False", "raised"
    exit,             \* source line of the return (or raise) that ended the call
    exported,         \* the document the exporter wrote to disk
    disk,             \* content of the .dxf file on disk
    patch_outcome,    \* "none", "ok" (lines 178-179), "warning" (line 181)
    io_error,         \* file failure met by the patch step: "none", "read", "open"
    content,          \* input of the header patch taken alone
    patched,          \* the patch applied once
    repatched,        \* the patch applied to its own output
    ppc               \* "in", "once", "twice"

vars == <<pc, project, selected_layers, layers_to_export, extent, calls,
          warnings, result, exit, exported, disk, patch_outcome, io_error, content, patched,
          repatched, ppc>>

pipeVars == <<pc, project, selected_layers, layers_to_export, extent, calls,
              warnings, result, exit, exported, disk, patch_outcome, io_error>>

patchVars == <<content, patched, repatched, ppc>>

----------------------------------------------------------------------------
(* Bounds *)

MaxLines == 5

MaxLayers == 2

MaxNames == 2

PipeLayers == 1

PipeNames == 1

MaxCoord == 2

----------------------------------------------------------------------------
(* Documents *)

WhiteSpace == {"NL", "SP"}

Digits == {"70", "0", "6"}

\* number of characters of a lexeme
TokLen(t) ==
    CASE t \in {"NL", "SP", "0", "6"} -> 1
      [] t = "70" -> 2
      [] t = "$INSUNITS" -> 9
      [] OTHER -> 6

RECURSIVE TextLen(_)
TextLen(s) == IF s = <<>> THEN 0 ELSE TokLen(Head(s)) + TextLen(Tail(s))

\* character offset at which lexeme i of s starts (0-based, as Python counts)
CharPos(s, i) == TextLen(SubSeq(s, 1, i - 1))

\* str.replace('AC1015', 'AC1021')
ReplaceVersion(s) ==
    [i \in 1..Len(s) |-> IF s[i] = "AC1015" THEN "AC1021" ELSE s[i]]

\* (mutant) the test for an existing directive always fails
ContainsUnitsNever(s) == FALSE

\* '$INSUNITS' in new_content
ContainsUnits(s) == \E i \in 1..Len(s) : s[i] = "$INSUNITS"

\* first index >= i of s that holds no lexeme of set S (Len(s)+1 if none)
RECURSIVE SkipWhile(_, _, _)
SkipWhile(s, i, S) ==
    IF i <= Len(s) /\ s[i] \in S THEN SkipWhile(s, i + 1, S) ELSE i

\* The pattern (\$INSUNITS\n\s*70\n\s*)\d+ tried at lexeme i: <<g, e>> where
\* g is the index of the first digit lexeme (group 1 is s[i..g-1]) and e the
\* index after the digit run; <<0, 0>> when the pattern does not match at i.
MatchAt(s, i) ==
    IF ~(i + 1 <= Len(s) /\ s[i] = "$INSUNITS" /\ s[i + 1] = "NL")
    THEN <<0, 0>>
    ELSE LET c == SkipWhile(s, i + 2, WhiteSpace) IN
         IF ~(c + 1 <= Len(s) /\ s[c] = "70" /\ s[c + 1] = "NL")
         THEN <<0, 0>>
         ELSE LET g == SkipWhile(s, c + 2, WhiteSpace)
                  e == SkipWhile(s, g, Digits)
              IN IF e > g THEN <<g, e>> ELSE <<0, 0>>

\* re.sub(pattern, r'\g<1>6', new_content): every non-overlapping match,
\* leftmost first, from lexeme i on
RECURSIVE ReSubFrom(_, _)
ReSubFrom(s, i) ==
    IF i > Len(s) THEN <<>>
    ELSE LET m == MatchAt(s, i) IN
         IF m[1] = 0
         THEN <<s[i]>> \o ReSubFrom(s, i + 1)
         ELSE SubSeq(s, i, m[1] - 1) \o <<"6">> \o ReSubFrom(s, m[2])

\* (mutant) the substitution written without the \g<1> back-reference: the
\* whole match, name and group-code lines included, becomes "6"
RECURSIVE ReSubDropGroup(_)
ReSubDropGroup(s) ==
    IF s = <<>> THEN <<>>
    ELSE LET m == MatchAt(s, 1) IN
         IF m[1] = 0
         THEN <<s[1]>> \o ReSubDropGroup(Tail(s))
         ELSE <<"6">> \o ReSubDropGroup(SubSeq(s, m[2], Len(s)))

ReSub(s) == ReSubFrom(s, 1)

\* (mutant) find that ignores its start argument
PyFindFromZero(s, tok, start) ==
    LET hits == {i \in 1..Len(s) : s[i] = tok}
    IN IF hits = {} THEN -1
       ELSE CharPos(s, CHOOSE i \in hits : \A j \in hits : i <= j)

\* str.find(tok, start): the character offset of the first occurrence of tok
\* at or after character offset start, -1 when there is none.  A negative
\* start counts from the end of the text (and is clamped at 0).
PyFind(s, tok, start) ==
    LET n == TextLen(s)
        from == IF start >= 0 THEN start
                ELSE IF n + start >= 0 THEN n + start ELSE 0
        hits == {i \in 1..Len(s) : s[i] = tok /\ CharPos(s, i) >= from}
    IN IF hits = {} THEN -1
       ELSE CharPos(s, CHOOSE i \in hits : \A j \in hits : i <= j)

\* units_def = "\n$INSUNITS\n 70\n     6\n"
UnitsDef ==
    <<"NL", "$INSUNITS", "NL", "SP", "70", "NL",
      "SP", "SP", "SP", "SP", "SP", "6", "NL">>

\* new_content[:off] + ins + new_content[off:], off the offset of a lexeme
InsertAt(s, off, ins) ==
    LET k == CHOOSE i \in 1..Len(s) : CharPos(s, i) = off
    IN SubSeq(s, 1, k - 1) \o ins \o SubSeq(s, k, Len(s))

\* lines 157-172: the new content computed from the content read
HeaderPatch(doc) ==
    LET new_content == ReplaceVersion(doc) IN
    IF ContainsUnits(new_content)
    THEN ReSub(new_content)
    ELSE LET header_end ==
                 PyFind(new_content, "ENDSEC", PyFind(new_content, "HEADER", 0))
         IN IF header_end > -1
            THEN InsertAt(new_content, header_end, UnitsDef)
            ELSE new_content

\* The lines documents are drawn from, each ended by "\n"
Lines ==
    { <<"HEADER">>, <<"ENDSEC">>, <<"$INSUNITS">>, <<"SP", "70">>,
      <<"SP", "0">>, <<"AC1015">>, <<>> }

RECURSIVE Flatten(_)
Flatten(ls) ==
    IF ls = <<>> THEN <<>> ELSE Head(ls) \o <<"NL">> \o Flatten(Tail(ls))

DocsOf(n) == UNION {{Flatten(ls) : ls \in [1..k -> Lines]} : k \in 0..n}

----------------------------------------------------------------------------
(* Rectangles (QgsRectangle) *)

Rect(x0, y0, x1, y1) == [xMin |-> x0, yMin |-> y0, xMax |-> x1, yMax |-> y1]

\* QgsRectangle(): the null rectangle, all coordinates 0
NullRect == Rect(0, 0, 0, 0)

\* QgsRectangle.isNull
isNull(r) == r = NullRect

\* QgsRectangle.isEmpty: no width or no height
isEmpty(r) == r.xMax <= r.xMin \/ r.yMax <= r.yMin

Min(a, b) == IF a <= b THEN a ELSE b

Max(a, b) == IF a >= b THEN a ELSE b

\* QgsRectangle.combineExtentWith: a null receiver becomes the argument, a null
\* argument is ignored, otherwise the smallest rectangle containing both
combineExtentWith(r, o) ==
    IF isNull(r) THEN o
    ELSE IF isNull(o) THEN r
    ELSE Rect(Min(r.xMin, o.xMin), Min(r.yMin, o.yMin),
              Max(r.xMax, o.xMax), Max(r.yMax, o.yMax))

\* lines 66-71: the loop over the layers' extents, from accumulator acc
RECURSIVE CombineExtents(_, _)
CombineExtents(acc, es) ==
    IF es = <<>> THEN acc
    ELSE CombineExtents(IF isEmpty(acc) THEN Head(es)
                        ELSE combineExtentWith(acc, Head(es)),
                        Tail(es))

\* the extents a layer may have: the null rectangle of a layer without
\* features, and points, lines and boxes with coordinates in 1..MaxCoord
Extents ==
    {NullRect} \cup
    {r \in {Rect(x0, y0, x1, y1) : x0, y0, x1, y1 \in 1..MaxCoord} :
        r.xMin <= r.xMax /\ r.yMin <= r.yMax}

----------------------------------------------------------------------------
(* The host project *)

LayerNames == {"a", "b"}

\* names a caller may ask for: the layers' names and one no layer has
AskedNames == LayerNames \cup {"zz"}

Kinds == {"Vector", "Raster"}

\* layers of any name, visibility and kind, with one extent
Layers ==
    [name : LayerNames, visible : BOOLEAN, kind : Kinds,
     extent : {Rect(1, 1, 1, 1)}]

\* visible vector layers of one name, with any extent
LayersOfAnyExtent ==
    [name : {"a"}, visible : {TRUE}, kind : {"Vector"}, extent : Extents]

ProjectsOf(n, L) == UNION {[1..k -> L] : k \in 0..n}

Selections(n) == UNION {[1..k -> AskedNames] : k \in 0..n}

\* project.mapLayersByName(layer_name): the layers of that exact name
\* (a layer is named by its position in the project)
mapLayersByName(name) ==
    {i \in 1..Len(project) : project[i].name = name}

\* the elements of a set of layers, in project order
RECURSIVE InOrder(_)
InOrder(S) ==
    IF S = {} THEN <<>>
    ELSE LET i == CHOOSE x \in S : \A y \in S : x <= y
         IN <<i>> \o InOrder(S \ {i})

\* (mutant) every layer of each name is taken, not the first
RECURSIVE ResolveAllMatches(_)
ResolveAllMatches(names) ==
    IF names = <<>> THEN <<>>
    ELSE InOrder(mapLayersByName(Head(names))) \o ResolveAllMatches(Tail(names))

\* lines 42-45: the first layer of each name that has one, in name order
RECURSIVE ResolveNames(_)
ResolveNames(names) ==
    IF names = <<>> THEN <<>>
    ELSE LET layers == mapLayersByName(Head(names)) IN
         (IF layers # {}
          THEN <<CHOOSE i \in layers : \A j \in layers : i <= j>>
          ELSE <<>>) \o ResolveNames(Tail(names))

\* lines 48-51: the visible layers in tree order
RECURSIVE VisibleFrom(_)
VisibleFrom(i) ==
    IF i > Len(project) THEN <<>>
    ELSE (IF project[i].visible THEN <<i>> ELSE <<>>) \o VisibleFrom(i + 1)

\* lines 102-105: layers_dict, the vector layers among layers_to_export
VectorLayers(ls) ==
    {ls[j] : j \in {x \in 1..Len(ls) : project[ls[x]].kind = "Vector"}}

\* the documents the exporter may write
ExportedDocs ==
    { Flatten(<<<<"HEADER">>, <<"AC1015">>, <<"ENDSEC">>>>),
      Flatten(<<<<"HEADER">>, <<"$INSUNITS">>, <<"SP", "70">>, <<"SP", "0">>,
                <<"ENDSEC">>>>),
      Flatten(<<<<"AC1015">>, <<"ENDSEC">>>>),
      Flatten(<<<<"HEADER">>, <<"$INSUNITS">>, <<"AC1015">>, <<"ENDSEC">>>>) }

----------------------------------------------------------------------------
(* export_layers_to_dxf *)

PatchIdle ==
    /\ content = <<>>
    /\ patched = <<>>
    /\ repatched = <<>>
    /\ ppc = "idle"

InitAt(label, P, S) ==
    /\ pc = label
    /\ project \in P
    /\ selected_layers \in S
    /\ layers_to_export = <<>>
    /\ extent = NullRect
    /\ calls = {}
    /\ warnings = {}
    /\ result = "unset"
    /\ exit = "none"
    /\ exported = <<>>
    /\ disk = <<>>
    /\ patch_outcome = "none"
    /\ io_error = "none"
    /\ PatchIdle

Init == InitAt("start", ProjectsOf(PipeLayers, Layers), Selections(PipeNames))

Return(value, line) ==
    /\ pc' = "done"
    /\ result' = value
    /\ exit' = line

\* lines 25-33: the output directory exists, is created, or cannot be created
PrepareOutputDir ==
    /\ pc = "start"
    /\ \E dir \in {"exists", "created", "makedirs raises"} :
          IF dir = "makedirs raises"
          THEN Return("raised", "L33")
          ELSE pc' = "select" /\ UNCHANGED <<result, exit>>
    /\ UNCHANGED <<project, selected_layers, layers_to_export, extent, calls,
                   warnings, exported, disk, patch_outcome, io_error>>
    /\ UNCHANGED patchVars

\* lines 38-57
SelectLayers ==
    /\ pc = "select"
    /\ layers_to_export' = IF selected_layers # <<>>
                           THEN ResolveNames(selected_layers)
                           ELSE VisibleFrom(1)
    /\ IF layers_to_export' = <<>>
       THEN Return("None", "L55")
       ELSE pc' = "extent" /\ UNCHANGED <<result, exit>>
    /\ UNCHANGED <<project, selected_layers, extent, calls, warnings, exported,
                   disk, patch_outcome, io_error>>
    /\ UNCHANGED patchVars

\* lines 65-71
AggregateExtent ==
    /\ pc = "extent"
    /\ extent' = CombineExtents(NullRect,
                     [j \in 1..Len(layers_to_export) |->
                         project[layers_to_export[j]].extent])
    /\ pc' = "create"
    /\ UNCHANGED <<project, selected_layers, layers_to_export, calls, warnings,
                   result, exit, exported, disk, patch_outcome, io_error>>
    /\ UNCHANGED patchVars

\* lines 73-75, 193-195
CreateExporter ==
    /\ pc = "create"
    /\ \E raises \in BOOLEAN :
          IF raises
          THEN Return("False", "L195") /\ UNCHANGED calls
          ELSE /\ calls' = calls \cup {"QgsDxfExport"}
               /\ pc' = "scale"
               /\ UNCHANGED <<result, exit>>
    /\ UNCHANGED <<project, selected_layers, layers_to_export, extent, warnings,
                   exported, disk, patch_outcome, io_error>>
    /\ UNCHANGED patchVars

\* One best-effort configuration step: the method the capability probe picks
\* (or "none" when the exporter has none of them) and whether the call raises
Configure(label, methods, next) ==
    /\ pc = label
    /\ \E m \in methods \cup {"none"}, raises \in BOOLEAN :
          /\ calls' = IF m = "none" THEN calls ELSE calls \cup {m}
          /\ warnings' = IF raises /\ m # "none" THEN warnings \cup {label}
                         ELSE warnings
    /\ pc' = next
    /\ UNCHANGED <<project, selected_layers, layers_to_export, extent, result,
                   exit, exported, disk, patch_outcome, io_error>>
    /\ UNCHANGED patchVars

\* (mutant) the scale step without its own try: an exception reaches line 193
SetSymbologyScaleUnguarded ==
    /\ pc = "scale"
    /\ \E m \in {"setSymbologyScale", "none"}, raises \in BOOLEAN :
          /\ calls' = IF m = "none" THEN calls ELSE calls \cup {m}
          /\ IF raises /\ m # "none"
             THEN Return("False", "L195")
             ELSE pc' = "crs" /\ UNCHANGED <<result, exit>>
    /\ UNCHANGED <<project, selected_layers, layers_to_export, extent, warnings,
                   exported, disk, patch_outcome, io_error>>
    /\ UNCHANGED patchVars

\* lines 77-82
SetSymbologyScale == Configure("scale", {"setSymbologyScale"}, "crs")

\* lines 85-93
SetCrs == Configure("crs", {"setSourceCrs", "setCrs"}, "map")

\* lines 95-100: no capability probe; a missing method or canvas raises
SetMapSettings ==
    /\ pc = "map"
    /\ \E o \in {"ok", "raises", "canvas raises"} :
          /\ calls' = IF o = "canvas raises" THEN calls
                      ELSE calls \cup {"setMapSettings"}
          /\ warnings' = IF o = "ok" THEN warnings ELSE warnings \cup {"map"}
    /\ pc' = "filter"
    /\ UNCHANGED <<project, selected_layers, layers_to_export, extent, result,
                   exit, exported, disk, patch_outcome, io_error>>
    /\ UNCHANGED patchVars

\* (mutant) the vector filter without its return
FilterVectorLayersNoReturn ==
    /\ pc = "filter"
    /\ pc' = "layers"
    /\ UNCHANGED <<project, selected_layers, layers_to_export, extent, calls,
                   warnings, result, exit, exported, disk, patch_outcome,
                   io_error>>
    /\ UNCHANGED patchVars

\* lines 102-109
FilterVectorLayers ==
    /\ pc = "filter"
    /\ IF VectorLayers(layers_to_export) = {}
       THEN Return("False", "L109")
       ELSE pc' = "layers" /\ UNCHANGED <<result, exit>>
    /\ UNCHANGED <<project, selected_layers, layers_to_export, extent, calls,
                   warnings, exported, disk, patch_outcome, io_error>>
    /\ UNCHANGED patchVars

\* lines 111-118
SetLayers == Configure("layers", {"setVectorLayers", "setLayers"}, "write")

\* lines 120-148: the file cannot be opened; or writeToFile(QFile, codec)
\* answers; or it raises and writeToFile(path) answers or raises too.  The
\* answer is a value or None.
WriteToFile ==
    /\ pc = "write"
    /\ \E o \in {"open fails", "first", "second", "both raise"},
          answer \in {"value", "None"} :
          CASE o = "open fails" ->
                 /\ Return("False", "L136")
                 /\ UNCHANGED <<calls, exported, disk>>
            [] o = "both raise" ->
                 /\ Return("False", "L144")
                 /\ calls' = calls \cup {"writeToFile"}
                 /\ UNCHANGED <<exported, disk>>
            [] OTHER ->
                 /\ calls' = calls \cup {"writeToFile"}
                 /\ IF answer = "None"
                    THEN Return("False", "L148") /\ UNCHANGED <<exported, disk>>
                    ELSE /\ \E d \in ExportedDocs : exported' = d /\ disk' = d
                         /\ pc' = "patch"
                         /\ UNCHANGED <<result, exit>>
    /\ UNCHANGED <<project, selected_layers, layers_to_export, extent, warnings,
                   patch_outcome, io_error>>
    /\ UNCHANGED patchVars

\* lines 150-187: the file is read, patched and written back; a failure to
\* read it or to open it for writing is caught at line 180; then return True
PatchFile ==
    /\ pc = "patch"
    /\ \E io \in {"none", "read", "open"} :
          /\ io_error' = io
          /\ IF io = "none"
             THEN disk' = HeaderPatch(disk) /\ patch_outcome' = "ok"
             ELSE disk' = disk /\ patch_outcome' = "warning"
    /\ Return("True", "L187")
    /\ UNCHANGED <<project, selected_layers, layers_to_export, extent, calls,
                   warnings, exported>>
    /\ UNCHANGED patchVars

Next ==
    \/ PrepareOutputDir
    \/ SelectLayers
    \/ AggregateExtent
    \/ CreateExporter
    \/ SetSymbologyScale
    \/ SetCrs
    \/ SetMapSettings
    \/ FilterVectorLayers
    \/ SetLayers
    \/ WriteToFile
    \/ PatchFile

Spec == Init /\ [][Next]_vars

----------------------------------------------------------------------------
(* Layer selection taken alone: larger projects and name lists *)

InitSelect == InitAt("select", ProjectsOf(MaxLayers, Layers), Selections(MaxNames))

NextSelect == SelectLayers

SpecSelect == InitSelect /\ [][NextSelect]_vars

----------------------------------------------------------------------------
(* Selection and extent aggregation over layers of any extent *)

InitExtent == InitAt("select", ProjectsOf(MaxLayers, LayersOfAnyExtent), {<<>>})

NextExtent == SelectLayers \/ AggregateExtent

SpecExtent == InitExtent /\ [][NextExtent]_vars

----------------------------------------------------------------------------
(* The header patch taken alone *)

PipeIdle ==
    /\ pc = "idle"
    /\ project = <<>>
    /\ selected_layers = <<>>
    /\ layers_to_export = <<>>
    /\ extent = NullRect
    /\ calls = {}
    /\ warnings = {}
    /\ result = "unset"
    /\ exit = "none"
    /\ exported = <<>>
    /\ disk = <<>>
    /\ patch_outcome = "none"
    /\ io_error = "none"

InitPatch ==
    /\ PipeIdle
    /\ content \in DocsOf(MaxLines)
    /\ patched = <<>>
    /\ repatched = <<>>
    /\ ppc = "in"

ApplyPatch ==
    /\ ppc = "in"
    /\ patched' = HeaderPatch(content)
    /\ ppc' = "once"
    /\ UNCHANGED <<content, repatched>>
    /\ UNCHANGED pipeVars

ApplyPatchAgain ==
    /\ ppc = "once"
    /\ repatched' = HeaderPatch(patched)
    /\ ppc' = "twice"
    /\ UNCHANGED <<content, patched>>
    /\ UNCHANGED pipeVars

NextPatch == ApplyPatch \/ ApplyPatchAgain

SpecPatch == InitPatch /\ [][NextPatch]_vars

----------------------------------------------------------------------------
(* What the claims speak of, stated on the document itself *)

\* the document holds a HEADER marker followed by an ENDSEC marker
HasHeaderPair(d) ==
    \E h, k \in 1..Len(d) : h < k /\ d[h] = "HEADER" /\ d[k] = "ENDSEC"

\* lexeme j of d is the value of a unit directive record: the name line, then
\* a line of optional whitespace and 70, then optional whitespace, then j
IsRecordValue(d, j) ==
    /\ d[j] \in Digits
    /\ \E i, c \in 1..j :
          /\ i + 1 < c /\ c + 1 < j
          /\ d[i] = "$INSUNITS" /\ d[i + 1] = "NL"
          /\ \A x \in (i + 2)..(c - 1) : d[x] \in WhiteSpace
          /\ d[c] = "70" /\ d[c + 1] = "NL"
          /\ \A x \in (c + 2)..(j - 1) : d[x] \in WhiteSpace

RecordValues(d) == {j \in 1..Len(d) : IsRecordValue(d, j)}

UnitNames(d) == {i \in 1..Len(d) : d[i] = "$INSUNITS"}


\* C3: patching is idempotent: the patch applied to an already patched
\* document returns that document unchanged.
C3_PatchIdempotent == ppc = "twice" => repatched = patched

\* C3 witness: the first patch inserted a new unit directive and the patch
\* was applied again
C3_Witness ==
    /\ ppc = "twice"
    /\ UnitNames(content) = {}
    /\ UnitNames(patched) # {}
    /\ \E i \in 1..Len(content) : content[i] = "AC1015"

C5_InsertedBeforeHeaderEnd ==
    (ppc = "once" /\ HasHeaderPair(content) /\ UnitNames(content) = {}) =>
        LET h == CHOOSE x \in 1..Len(content) :
                     /\ content[x] = "HEADER"
                     /\ \A y \in 1..(x - 1) : content[y] # "HEADER"
            k == CHOOSE x \in (h + 1)..Len(content) :
                     /\ content[x] = "ENDSEC"
                     /\ \A y \in (h + 1)..(x - 1) : content[y] # "ENDSEC"
            rc == [i \in 1..Len(content) |->
                     IF content[i] = "AC1015" THEN "AC1021" ELSE content[i]]
        IN /\ patched = SubSeq(rc, 1, k - 1)
                          \o <<"NL", "$INSUNITS", "NL", "SP", "70", "NL",
                               "SP", "SP", "SP", "SP", "SP", "6", "NL">>
                          \o SubSeq(rc, k, Len(rc))
           /\ Cardinality(UnitNames(patched)) = 1
           /\ Cardinality(RecordValues(patched)) = 1
           /\ \A j \in RecordValues(patched) : patched[j] = "6" /\ patched[j + 2] = "ENDSEC"

\* C5 witness: an ENDSEC precedes the HEADER, another follows it, and the
\* directive has been inserted
C5_Witness ==
    /\ ppc = "once"
    /\ UnitNames(content) = {}
    /\ \E e1, h, e2 \in 1..Len(content) :
          /\ e1 < h /\ h < e2
          /\ content[e1] = "ENDSEC" /\ content[h] = "HEADER" /\ content[e2] = "ENDSEC"
    /\ UnitNames(patched) # {}

----------------------------------------------------------------------------
(* Claims on the pipeline *)

\* C1: the patch step ends in the failure outcome if and only if the
\* exported document holds no HEADER marker followed by an ENDSEC marker
\* (file failures aside).
C1_MalformedHeaderIff ==
    (pc = "done" /\ exit = "L187" /\ io_error = "none") =>
        (patch_outcome = "warning" <=> ~HasHeaderPair(exported))

\* the extents of the layers to export, in their order
LayerExtents ==
    [j \in 1..Len(layers_to_export) |-> project[layers_to_export[j]].extent]

\* C2: the extent fold is order-independent and associative: every
\* permutation and every grouping of a sequence of non-null layer extents,
\* zero-area ones included, yields the same combined rectangle.
C2_FoldOrderIndependent ==
    (pc = "create" /\ \A j \in DOMAIN LayerExtents : ~isNull(LayerExtents[j])) =>
        LET es == LayerExtents
            n == Len(es)
        IN /\ \A f \in Permutations(1..n) :
                 CombineExtents(NullRect, [j \in 1..n |-> es[f[j]]]) = extent
           /\ \A k \in 1..(n - 1) :
                 CombineExtents(NullRect,
                     << CombineExtents(NullRect, SubSeq(es, 1, k)),
                        CombineExtents(NullRect, SubSeq(es, k + 1, n)) >>) = extent

\* C6: the document on disk after the patch step is either the fully patched
\* document (no AC1015 left and a unit directive with value 6 present) or the
\* exported document unchanged.
C6_PatchIsTransaction ==
    (pc = "done" /\ exit = "L187") =>
        \/ disk = exported
        \/ /\ \A i \in 1..Len(disk) : disk[i] # "AC1015"
           /\ \E j \in RecordValues(disk) : disk[j] = "6"

ConfigCalls == {"setSymbologyScale", "setSourceCrs", "setCrs", "setMapSettings"}

LayerSetCalls == {"setVectorLayers", "setLayers"}

\* C7 (as claimed): when no selected layer is a vector layer the call fails
\* without any call on the exporter, its creation included.
C7_NoExporterContact ==
    (pc = "done" /\ exit = "L109") => calls = {}

\* C7 (amended): when no selected layer is a vector layer the call returns
\* False before any layer set is handed to the exporter and before any write;
\* the exporter may have been created and its scale, CRS and map settings set.
C7_NoLayerSetNoWrite ==
    (pc = "done" /\ layers_to_export # <<>> /\ VectorLayers(layers_to_export) = {}) =>
        /\ exit \in {"L109", "L195"}
        /\ result = "False"
        /\ calls \cap (LayerSetCalls \cup {"writeToFile"}) = {}
        /\ calls \subseteq ConfigCalls \cup {"QgsDxfExport"}

\* C7 witness: a run over raster layers only ended at line 109 after the
\* exporter was created and configured
C7_Witness ==
    /\ pc = "done"
    /\ exit = "L109"
    /\ layers_to_export # <<>>
    /\ {"QgsDxfExport", "setSymbologyScale", "setMapSettings"} \subseteq calls

\* C8: every run ends by returning a boolean: no exception escapes and no
\* exit path returns a non-boolean.
C8_ReturnsBoolean == pc = "done" => result \in {"True", "False"}

\* C9: with a non-empty name list, selection resolves each name by exact
\* match, skips the names no layer has, and returns the resolved layers in
\* the order of the names: as many as there are names that match.
C9_NamesResolvedInOrder ==
    (pc # "select" /\ selected_layers # <<>>) =>
        LET matching == {i \in DOMAIN selected_layers :
                            \E l \in 1..Len(project) :
                                project[l].name = selected_layers[i]}
            rank(i) == Cardinality({m \in matching : m <= i})
        IN /\ Len(layers_to_export) = Cardinality(matching)
           /\ \A i \in matching :
                 /\ layers_to_export[rank(i)] \in 1..Len(project)
                 /\ project[layers_to_export[rank(i)]].name = selected_layers[i]

\* C9 witness: a name no layer has was skipped, and a name two layers have
\* was resolved
C9_Witness ==
    /\ pc = "extent"
    /\ \E i \in DOMAIN selected_layers : selected_layers[i] = "zz"
    /\ \E i \in DOMAIN selected_layers :
          Cardinality(mapLayersByName(selected_layers[i])) > 1
    /\ Len(layers_to_export) < Len(selected_layers)

\* C10: whatever the configuration calls do (supported, unsupported, raising),
\* a run with a selected vector layer and a created exporter comes to the
\* write step: it ends at one of the write step's returns or after the patch.
C10_ConfigurationNeverAborts ==
    (pc = "done" /\ "QgsDxfExport" \in calls /\ VectorLayers(layers_to_export) # {}) =>
        exit \in {"L136", "L144", "L148", "L187"}

\* C10 witness: every configuration step raised and the file was written
C10_Witness ==
    /\ pc = "done"
    /\ exit = "L187"
    /\ warnings = {"scale", "crs", "map", "layers"}
    /\ "writeToFile" \in calls

====
